---- MODULE Spec2Model ----
(***************************************************************************)
(* Model of the multi-timer manager (src/main.go).                         *)
(*                                                                         *)
(* Durations are whole seconds (one unit = time.Second), which is the      *)
(* granularity of the ticker and of parseDuration's results.               *)
(* A *Timer is a record; the nested TimerState struct is flattened into    *)
(* it.  Timer names are chosen distinct by the user of the model, so that  *)
(* a timer and the config it was created with can be told apart from the   *)
(* others by name.                                                         *)
(*                                                                         *)
(* Three goroutines run: the ticker goroutine (startUpdateLoop), the       *)
(* display goroutine (main, lines 376-380) and the command loop (main).    *)
(* A critical section is two steps: one takes tm.mu and runs the section,  *)
(* one releases tm.mu, so that the holder of tm.mu is part of the state.   *)
(* Nothing that takes the lock can interleave with a section, and the      *)
(* unlocked reads of the command loop see the lists before or after it.    *)
(***************************************************************************)
EXTENDS Integers, Sequences, FiniteSets, TLC

VARIABLES
  activeTimers,   \* tm.activeTimers: sequence of timers
  configs,        \* tm.configs: sequence of timer configs
  displayChan,    \* number of values buffered in tm.displayChan
  mu,             \* holder of tm.mu: "none", "tick", "main" or "disp"
  tickPc,         \* position of the ticker goroutine
  needsDisplay,   \* the ticker goroutine's local needsDisplay
  dispPc,         \* position of the display goroutine
  mainPc,         \* position of the command loop
  cmd,            \* the command being executed by the command loop
  store,          \* content of timers.json
  notified,       \* notifications sent by the tick loop since it took tm.mu
  crashed,        \* the process died of a runtime panic
  created,        \* number of timers created by the `a` command so far
  ticks,          \* SpecUpdate only: ticks since the timer was created
  printed,        \* names on the timer lines written to the terminal by the
                  \* displayTimers call that holds tm.mu
  input,          \* SpecParse only: the string given to parseDuration
  parsed          \* SpecParse only: what parseDuration returned for it

vars == <<activeTimers, configs, displayChan, mu, tickPc, needsDisplay,
          dispPc, mainPc, cmd, store, notified, crashed, created, ticks,
          printed, input, parsed>>

----------------------------------------------------------------------------
(* Bounds of the model *)

MaxTimers == 2      \* the `a` command is given at most this many times
MaxCount == 1       \* the ticker stops once a cycle counter exceeds this
MaxDur == 2         \* SpecUpdate: longest work or break duration, seconds
MaxPhases == 2      \* SpecUpdate: most phases of a program
MaxCyc == 2         \* SpecUpdate: largest bounded maxCycles
MaxTicks == 10      \* SpecUpdate: ticks applied to the timer
MaxLen == 4         \* SpecParse: longest string given to parseDuration

(* Program constants *)

Unlimited == -1     \* maxCycles of an unlimited timer
DisplayChanCap == 1 \* capacity of displayChan

----------------------------------------------------------------------------
(* Data *)

Phase(w, b) == [WorkDuration |-> w, BreakDuration |-> b]

TimerConfig(n, ps, mc) == [Name |-> n, Phases |-> ps, MaxCycles |-> mc]

\* timerFromConfig, and the Timer literal of createTimer
timerFromConfig(config) ==
  [ name         |-> config.Name,
    isWork       |-> TRUE,
    currentTime  |-> config.Phases[1].WorkDuration,
    cycles       |-> 1,
    currentPhase |-> 0,
    phases       |-> config.Phases,
    maxCycles    |-> config.MaxCycles,
    isPaused     |-> FALSE ]

\* a removal that takes the element after the one asked for
RemoveAtNext(s, i) == SubSeq(s, 1, i) \o SubSeq(s, i + 2, Len(s))

\* s with its element at 1-based position i removed: append(s[:i-1], s[i:]...)
RemoveAt(s, i) == SubSeq(s, 1, i - 1) \o SubSeq(s, i + 1, Len(s))

----------------------------------------------------------------------------
(* Timer.update: the result is the timer after the call, the returned      *)
(* bool, and the kinds of the notifications sent.                          *)

\* update without the test of isPaused
skippedNever(t) == FALSE

\* Line 124
skipped(t) == t.isPaused

\* update switching one second early
dueEarly(t) == t.currentTime <= 1

\* update switching only below zero
dueLate(t) == t.currentTime < 0

\* Line 128
due(t) == t.currentTime <= 0

\* update comparing the cycle counter off by one
cyclesDoneLate(t, c) == t.maxCycles # Unlimited /\ c > t.maxCycles + 1

\* update without the test for unlimited cycles
cyclesDoneAny(t, c) == c > t.maxCycles

\* Line 136, c being the incremented cycle counter
cyclesDone(t, c) == t.maxCycles # Unlimited /\ c > t.maxCycles

\* update without the increment of the cycle counter
nextCycleSame(t) == t.cycles

\* Line 135
nextCycle(t) == t.cycles + 1

update(t) ==
  IF skipped(t)
  THEN [t |-> t, completed |-> FALSE, notes |-> {}]
  ELSE IF due(t)
  THEN IF t.isWork
       THEN [t |-> [t EXCEPT !.isWork = FALSE,
                             !.currentTime = t.phases[t.currentPhase + 1].BreakDuration],
             completed |-> FALSE, notes |-> {"break"}]
       ELSE LET c == nextCycle(t) IN
            IF cyclesDone(t, c)
            THEN LET p == t.currentPhase + 1 IN
                 IF p >= Len(t.phases)
                 THEN [t |-> [t EXCEPT !.cycles = c, !.currentPhase = p],
                       completed |-> TRUE, notes |-> {"completed"}]
                 ELSE [t |-> [t EXCEPT !.cycles = 1, !.currentPhase = p,
                                       !.isWork = TRUE,
                                       !.currentTime = t.phases[p + 1].WorkDuration],
                       completed |-> FALSE, notes |-> {"work"}]
            ELSE [t |-> [t EXCEPT !.cycles = c, !.isWork = TRUE,
                                  !.currentTime = t.phases[t.currentPhase + 1].WorkDuration],
                  completed |-> FALSE, notes |-> {"work"}]
  ELSE [t |-> [t EXCEPT !.currentTime = t.currentTime - 1],
        completed |-> FALSE, notes |-> {}]

\* an iteration that keeps a completed timer in the list
tickStepKeep(acc, i) ==
  LET r == update(acc.timers[i]) IN
  [ timers |-> [acc.timers EXCEPT ![i] = r.t],
    notes  |-> acc.notes \cup {<<acc.timers[i].name, k>> : k \in r.notes},
    needsDisplay |-> TRUE ]

\* One iteration of the tick loop, for 1-based position i of the list
tickStep(acc, i) ==
  LET r == update(acc.timers[i]) IN
  [ timers |-> IF r.completed THEN RemoveAt(acc.timers, i)
               ELSE [acc.timers EXCEPT ![i] = r.t],
    notes  |-> acc.notes \cup {<<acc.timers[i].name, k>> : k \in r.notes},
    needsDisplay |-> TRUE ]

\* The loop `for i := len(tm.activeTimers) - 1; i >= 0; i--`
RECURSIVE tickFrom(_, _)
tickFrom(acc, i) == IF i < 1 THEN acc ELSE tickFrom(tickStep(acc, i), i - 1)

tickLoop(timers) ==
  tickFrom([timers |-> timers, notes |-> {}, needsDisplay |-> FALSE], Len(timers))

\* a send into a channel without the capacity of 1
trySendQueued(n) == n + 1

\* The non-blocking send `select { case tm.displayChan <- true: default: }`
trySend(n) == IF n < DisplayChanCap THEN n + 1 ELSE n

----------------------------------------------------------------------------
(* The ticker goroutine (startUpdateLoop) *)

\* Lines 158-169: tm.mu.Lock() and the loop over the timers
TickBody ==
  /\ ~crashed /\ tickPc = "wait" /\ mu = "none"
  /\ \A i \in 1..Len(activeTimers) : activeTimers[i].cycles <= MaxCount
  /\ mu' = "tick"
  /\ LET r == tickLoop(activeTimers) IN
       /\ activeTimers' = r.timers
       /\ notified' = r.notes
       /\ needsDisplay' = r.needsDisplay
  /\ tickPc' = "unlock"
  /\ UNCHANGED <<configs, displayChan, dispPc, mainPc, cmd, store, crashed,
                 created, ticks,
                 printed, input, parsed>>

\* Line 171
TickUnlock ==
  /\ ~crashed /\ tickPc = "unlock"
  /\ mu' = "none"
  /\ notified' = {}
  /\ tickPc' = IF needsDisplay THEN "post" ELSE "wait"
  /\ UNCHANGED <<activeTimers, configs, displayChan, needsDisplay, dispPc,
                 mainPc, cmd, store, crashed, created, ticks,
                 printed, input, parsed>>

\* Lines 173-179
TickPost ==
  /\ ~crashed /\ tickPc = "post"
  /\ displayChan' = trySend(displayChan)
  /\ tickPc' = "wait"
  /\ needsDisplay' = FALSE
  /\ UNCHANGED <<activeTimers, configs, mu, dispPc, mainPc, cmd, store,
                 notified, crashed, created, ticks,
                 printed, input, parsed>>

----------------------------------------------------------------------------
(* displayTimers: tm.mu is taken at line 242 and released at line 251; the *)
(* lines of the timers are formatted and printed in between.               *)

\* The loop of lines 243-250 writes one line per timer, in list order; a
\* line is known by the name of its timer
timerLines(timers) == [i \in 1..Len(timers) |-> timers[i].name]

\* The display goroutine: `for range tm.displayChan { tm.displayTimers(true) }`
DispRecv ==
  /\ ~crashed /\ dispPc = "recv" /\ displayChan > 0
  /\ displayChan' = displayChan - 1
  /\ dispPc' = "lock"
  /\ UNCHANGED <<activeTimers, configs, mu, tickPc, needsDisplay, mainPc,
                 cmd, store, notified, crashed, created, ticks,
                 printed, input, parsed>>

\* Lines 242-250: tm.mu.Lock() and the printing of the timers
DispPrint ==
  /\ ~crashed /\ dispPc = "lock" /\ mu = "none"
  /\ mu' = "disp" /\ dispPc' = "unlock"
  /\ printed' = timerLines(activeTimers)
  /\ UNCHANGED <<activeTimers, configs, displayChan, tickPc, needsDisplay,
                 mainPc, cmd, store, notified, crashed, created, ticks,
                 input, parsed>>

\* Line 251 and the menu of lines 253-262: the listing is over
DispUnlock ==
  /\ ~crashed /\ dispPc = "unlock"
  /\ mu' = "none" /\ dispPc' = "recv"
  /\ printed' = <<>>
  /\ UNCHANGED <<activeTimers, configs, displayChan, tickPc, needsDisplay,
                 mainPc, cmd, store, notified, crashed, created, ticks,
                 input, parsed>>

----------------------------------------------------------------------------
(* parseDuration.  A string is a sequence of one-character strings, and a *)
(* duration is a number of seconds.                                        *)

Minute == 60        \* time.Minute, in seconds

\* What parseDuration returns: the error is nil or not, and the duration
Result(ok, d) == [ok |-> ok, duration |-> d]

\* parseDuration was not called
NoResult == Result(FALSE, -1)

\* strings.TrimSpace, for the white space of the model (the blank)
RECURSIVE TrimLeft(_)
TrimLeft(s) == IF s # <<>> /\ Head(s) = " " THEN TrimLeft(Tail(s)) ELSE s

RECURSIVE TrimRight(_)
TrimRight(s) ==
  IF s # <<>> /\ s[Len(s)] = " " THEN TrimRight(SubSeq(s, 1, Len(s) - 1)) ELSE s

TrimSpace(s) == TrimRight(TrimLeft(s))

\* strings.Contains(s, c) for a one-character c
Contains(s, c) == \E i \in 1..Len(s) : s[i] = c

\* strings.Split(s, sep) for a one-character sep: the fields between the
\* separators, empty fields included
RECURSIVE Split(_, _)
Split(s, sep) ==
  IF ~Contains(s, sep)
  THEN <<s>>
  ELSE LET i == CHOOSE k \in 1..Len(s) :
                  s[k] = sep /\ \A j \in 1..(k - 1) : s[j] # sep
       IN <<SubSeq(s, 1, i - 1)>> \o Split(SubSeq(s, i + 1, Len(s)), sep)

DigitChars == <<"0", "1", "2", "3", "4", "5", "6", "7", "8", "9">>

IsDigit(c) == \E d \in 1..10 : DigitChars[d] = c

DigitVal(c) == (CHOOSE d \in 1..10 : DigitChars[d] = c) - 1

\* The number written by a sequence of digits
RECURSIVE digitsValue(_)
digitsValue(ds) ==
  IF ds = <<>> THEN 0
  ELSE 10 * digitsValue(SubSeq(ds, 1, Len(ds) - 1)) + DigitVal(ds[Len(ds)])

\* strconv.Atoi: an optional sign and one or more decimal digits (the
\* strings of the model are too short to leave the range of int)
Atoi(s) ==
  LET signed == s # <<>> /\ Head(s) \in {"+", "-"}
      ds == IF signed THEN Tail(s) ELSE s
  IN IF ds = <<>> \/ \E i \in 1..Len(ds) : ~IsDigit(ds[i])
     THEN [ok |-> FALSE, n |-> 0]
     ELSE [ok |-> TRUE,
           n |-> IF signed /\ Head(s) = "-" THEN 0 - digitsValue(ds)
                 ELSE digitsValue(ds)]

\* a conversion that takes the number for seconds
minutesAsSeconds(n) == n

\* time.Duration(minutes) * time.Minute
minutes(n) == n * Minute

parseDuration(str) ==
  LET s == TrimSpace(str) IN
  IF Contains(s, ":")
  THEN LET parts == Split(s, ":") IN
       IF Len(parts) # 2
       THEN Result(FALSE, 0)
       ELSE LET m == Atoi(parts[1])
                sec == Atoi(parts[2])
            IN IF ~m.ok \/ ~sec.ok
               THEN Result(FALSE, 0)
               ELSE Result(TRUE, minutes(m.n) + sec.n)
  ELSE LET m == Atoi(s) IN
       IF ~m.ok THEN Result(FALSE, 0) ELSE Result(TRUE, minutes(m.n))

----------------------------------------------------------------------------
(* The command loop of main *)

NoConfig == TimerConfig(0, <<>>, 0)

NoCmd == [op |-> "", num |-> 0, config |-> NoConfig]

\* The programs the user enters in createTimer
Programs ==
  { [Phases |-> <<Phase(0, 0)>>, MaxCycles |-> Unlimited],
    [Phases |-> <<Phase(0, 0), Phase(1, 0)>>, MaxCycles |-> 1] }

\* `a`: createTimer reads the program from the user; no list is touched.
\* The user names the timers 1, 2, ... in the order of their creation.
ReadAdd ==
  /\ ~crashed /\ mainPc = "prompt"
  /\ created < MaxTimers
  /\ \E p \in Programs :
       cmd' = [op |-> "a", num |-> 0,
               config |-> TimerConfig(created + 1, p.Phases, p.MaxCycles)]
  /\ created' = created + 1
  /\ mainPc' = "lock"
  /\ UNCHANGED <<activeTimers, configs, displayChan, mu, tickPc,
                 needsDisplay, dispPc, store, notified, crashed, ticks,
                 printed, input, parsed>>

\* The test `num > 0 && num <= len(tm.activeTimers)` of lines 413, 424, 435
indexOk(num, timers) == num > 0 /\ num <= Len(timers)

\* `p <n>`, `r <n>`, `d <n>`: Sscanf leaves num = 0 when no number is given;
\* the index is tested before tm.mu is taken, and a command that fails the
\* test prompts again
ReadIndexed ==
  /\ ~crashed /\ mainPc = "prompt"
  /\ \E o \in {"p", "r", "d"}, n \in 0..(MaxTimers + 1) :
       IF indexOk(n, activeTimers)
       THEN /\ cmd' = [op |-> o, num |-> n, config |-> NoConfig]
            /\ mainPc' = "lock"
       ELSE /\ cmd' = NoCmd
            /\ mainPc' = "prompt"
  /\ UNCHANGED <<activeTimers, configs, displayChan, mu, tickPc,
                 needsDisplay, dispPc, store, notified, crashed, created,
                 ticks,
                 printed, input, parsed>>

\* an add that appends the timer and forgets its config
addTimerOnly(timers, cfgs, config) ==
  [timers |-> Append(timers, timerFromConfig(config)),
   configs |-> cfgs, panic |-> FALSE]

\* Lines 401-402
addTimer(timers, cfgs, config) ==
  [timers |-> Append(timers, timerFromConfig(config)),
   configs |-> Append(cfgs, config), panic |-> FALSE]

\* Line 415; indexing past the end of the slice panics
togglePause(timers, cfgs, num) ==
  IF num < 1 \/ num > Len(timers)
  THEN [timers |-> timers, configs |-> cfgs, panic |-> TRUE]
  ELSE [timers |-> [timers EXCEPT ![num].isPaused = ~timers[num].isPaused],
        configs |-> cfgs, panic |-> FALSE]

\* a reset to the work duration of the current phase
resetCurrentPhase(timers, cfgs, num) ==
  IF num < 1 \/ num > Len(timers)
  THEN [timers |-> timers, configs |-> cfgs, panic |-> TRUE]
  ELSE [timers |-> [timers EXCEPT
                      ![num].currentTime =
                        timers[num].phases[timers[num].currentPhase + 1].WorkDuration],
        configs |-> cfgs, panic |-> FALSE]

\* Line 426
reset(timers, cfgs, num) ==
  IF num < 1 \/ num > Len(timers)
  THEN [timers |-> timers, configs |-> cfgs, panic |-> TRUE]
  ELSE [timers |-> [timers EXCEPT
                      ![num].currentTime = timers[num].phases[1].WorkDuration],
        configs |-> cfgs, panic |-> FALSE]

\* Lines 437-438; slicing past the end of a slice panics, and the first
\* assignment is done when the second slicing panics
delete(timers, cfgs, num) ==
  IF num < 1 \/ num > Len(timers)
  THEN [timers |-> timers, configs |-> cfgs, panic |-> TRUE]
  ELSE IF num > Len(cfgs)
  THEN [timers |-> RemoveAt(timers, num), configs |-> cfgs, panic |-> TRUE]
  ELSE [timers |-> RemoveAt(timers, num), configs |-> RemoveAt(cfgs, num),
        panic |-> FALSE]

command(c, timers, cfgs) ==
  CASE c.op = "a" -> addTimer(timers, cfgs, c.config)
    [] c.op = "p" -> togglePause(timers, cfgs, c.num)
    [] c.op = "r" -> reset(timers, cfgs, c.num)
    [] c.op = "d" -> delete(timers, cfgs, c.num)

\* tm.mu.Lock() and the statements up to tm.mu.Unlock() of the command
CmdBody ==
  /\ ~crashed /\ mainPc = "lock" /\ mu = "none"
  /\ mu' = "main"
  /\ LET r == command(cmd, activeTimers, configs) IN
       /\ activeTimers' = r.timers
       /\ configs' = r.configs
       /\ crashed' = r.panic
  /\ cmd' = [NoCmd EXCEPT !.op = cmd.op]
  /\ mainPc' = "unlock"
  /\ UNCHANGED <<displayChan, tickPc, needsDisplay, dispPc, store,
                 notified, created, ticks,
                 printed, input, parsed>>

CmdUnlock ==
  /\ ~crashed /\ mainPc = "unlock"
  /\ mu' = "none"
  /\ mainPc' = IF cmd.op \in {"a", "d"} THEN "save" ELSE "displock"
  /\ cmd' = NoCmd
  /\ UNCHANGED <<activeTimers, configs, displayChan, tickPc, needsDisplay,
                 dispPc, store, notified, crashed, created, ticks,
                 printed, input, parsed>>

\* saveTimerConfigs(tm.configs) succeeds: the file holds the config list
SaveOk ==
  /\ ~crashed /\ mainPc = "save"
  /\ store' = configs
  /\ mainPc' = "displock"
  /\ UNCHANGED <<activeTimers, configs, displayChan, mu, tickPc,
                 needsDisplay, dispPc, cmd, notified, crashed, created,
                 ticks,
                 printed, input, parsed>>

\* saveTimerConfigs(tm.configs) fails in os.Create: the error is printed
SaveFail ==
  /\ ~crashed /\ mainPc = "save"
  /\ mainPc' = "displock"
  /\ UNCHANGED <<activeTimers, configs, displayChan, mu, tickPc,
                 needsDisplay, dispPc, cmd, store, notified, crashed,
                 created, ticks,
                 printed, input, parsed>>

\* tm.displayTimers(false), called by the command loop: lines 242-250
MainDispPrint ==
  /\ ~crashed /\ mainPc = "displock" /\ mu = "none"
  /\ mu' = "main" /\ mainPc' = "dispunlock"
  /\ printed' = timerLines(activeTimers)
  /\ UNCHANGED <<activeTimers, configs, displayChan, tickPc, needsDisplay,
                 dispPc, cmd, store, notified, crashed, created, ticks,
                 input, parsed>>

\* Line 251 and the menu of lines 253-262
MainDispUnlock ==
  /\ ~crashed /\ mainPc = "dispunlock"
  /\ mu' = "none" /\ mainPc' = "prompt"
  /\ printed' = <<>>
  /\ UNCHANGED <<activeTimers, configs, displayChan, tickPc, needsDisplay,
                 dispPc, cmd, store, notified, crashed, created, ticks,
                 input, parsed>>

----------------------------------------------------------------------------
(* The program, started with no timers.json.  In Spec every write of       *)
(* timers.json succeeds; in SpecDisk a write may fail.                     *)

Init ==
  /\ activeTimers = <<>>
  /\ configs = <<>>
  /\ displayChan = 0
  /\ mu = "none"
  /\ tickPc = "wait"
  /\ needsDisplay = FALSE
  /\ dispPc = "recv"
  /\ mainPc = "prompt"
  /\ cmd = NoCmd
  /\ store = <<>>
  /\ notified = {}
  /\ crashed = FALSE
  /\ created = 0
  /\ ticks = 0
  /\ printed = <<>>
  /\ input = <<>>
  /\ parsed = NoResult

Next ==
  \/ TickBody \/ TickUnlock \/ TickPost
  \/ DispRecv \/ DispPrint \/ DispUnlock
  \/ ReadAdd \/ ReadIndexed \/ CmdBody \/ CmdUnlock
  \/ SaveOk
  \/ MainDispPrint \/ MainDispUnlock

Spec == Init /\ [][Next]_vars

\* The ticker goroutine and the command loop; the display goroutine, which
\* writes neither list nor the file, is not scheduled
NextDisk ==
  \/ TickBody \/ TickUnlock \/ TickPost
  \/ ReadAdd \/ ReadIndexed \/ CmdBody \/ CmdUnlock
  \/ SaveOk \/ SaveFail
  \/ MainDispPrint \/ MainDispUnlock

SpecDisk == Init /\ [][NextDisk]_vars

----------------------------------------------------------------------------
(* The ticker driving one timer that was loaded from timers.json, with no  *)
(* command given: main's lines 357-370 build the timer, and every tick is  *)
(* the whole handler of lines 158-179.                                     *)

Durations == 0..MaxDur

PhaseSeqs ==
  UNION { [1..n -> {Phase(w, b) : w \in Durations, b \in Durations}] :
          n \in 1..MaxPhases }

AllPrograms ==
  { [Phases |-> ps, MaxCycles |-> mc] :
      ps \in PhaseSeqs, mc \in {Unlimited} \cup (1..MaxCyc) }

InitUpdate ==
  /\ \E p \in AllPrograms : configs = <<TimerConfig(1, p.Phases, p.MaxCycles)>>
  /\ activeTimers = <<timerFromConfig(configs[1])>>
  /\ displayChan = 0
  /\ mu = "none"
  /\ tickPc = "wait"
  /\ needsDisplay = FALSE
  /\ dispPc = "recv"
  /\ mainPc = "prompt"
  /\ cmd = NoCmd
  /\ store = configs
  /\ notified = {}
  /\ crashed = FALSE
  /\ created = 0
  /\ ticks = 0
  /\ printed = <<>>
  /\ input = <<>>
  /\ parsed = NoResult

Tick ==
  /\ ~crashed /\ tickPc = "wait" /\ mu = "none"
  /\ ticks < MaxTicks
  /\ LET r == tickLoop(activeTimers) IN
       /\ activeTimers' = r.timers
       /\ notified' = r.notes
       /\ displayChan' = IF r.needsDisplay THEN trySend(displayChan)
                         ELSE displayChan
  /\ ticks' = ticks + 1
  /\ UNCHANGED <<configs, mu, tickPc, needsDisplay, dispPc, mainPc, cmd,
                 store, crashed, created, printed, input, parsed>>

NextUpdate == Tick \/ DispRecv \/ DispPrint \/ DispUnlock

SpecUpdate == InitUpdate /\ [][NextUpdate]_vars

----------------------------------------------------------------------------
(* The program started with a timers.json that holds one bounded timer,    *)
(* the user giving `p`, `r` and `d` commands.  The ticker goroutine is     *)
(* scheduled fairly: time.Ticker keeps firing, a goroutine that can run    *)
(* does run, and sync.Mutex hands tm.mu to a goroutine that keeps waiting  *)
(* for it (starvation mode), so the tick loop runs again and again.        *)

\* The bounded programs of the `a` command, and every one-phase program
\* whose cycles the ticker of the model runs to their end
LivePrograms ==
  { p \in Programs : p.MaxCycles # Unlimited }
    \cup { p \in AllPrograms : Len(p.Phases) = 1 /\ p.MaxCycles \in 1..MaxCount }

InitLive ==
  /\ \E p \in LivePrograms :
       configs = <<TimerConfig(1, p.Phases, p.MaxCycles)>>
  /\ activeTimers = <<timerFromConfig(configs[1])>>
  /\ displayChan = 0
  /\ mu = "none"
  /\ tickPc = "wait"
  /\ needsDisplay = FALSE
  /\ dispPc = "recv"
  /\ mainPc = "prompt"
  /\ cmd = NoCmd
  /\ store = configs
  /\ notified = {}
  /\ crashed = FALSE
  /\ created = 0
  /\ ticks = 0
  /\ printed = <<>>
  /\ input = <<>>
  /\ parsed = NoResult

NextLive ==
  \/ TickBody \/ TickUnlock \/ TickPost
  \/ DispRecv \/ DispPrint \/ DispUnlock
  \/ ReadIndexed \/ CmdBody \/ CmdUnlock
  \/ SaveOk
  \/ MainDispPrint \/ MainDispUnlock

\* No critical section blocks: a goroutine that holds tm.mu releases it
FairUnlock ==
  /\ WF_vars(CmdUnlock)
  /\ WF_vars(DispUnlock)
  /\ WF_vars(MainDispUnlock)

FairTick ==
  /\ SF_vars(TickBody)
  /\ WF_vars(TickUnlock)
  /\ WF_vars(TickPost)
  /\ FairUnlock

SpecLive == InitLive /\ [][NextLive]_vars /\ FairTick

----------------------------------------------------------------------------
(* parseDuration applied to one string, as createTimer applies it to the  *)
(* line read for a work or break time.                                     *)

\* The characters of the strings: digits, the separator, the signs, the
\* blank and a letter
Chars == {"0", "1", "2", "3", "5", ":", "-", "+", " ", "b"}

\* Every string of up to MaxLen characters, and the strings "bad", "1:2:3"
Inputs ==
  UNION { [1..n -> Chars] : n \in 0..MaxLen }
    \cup { <<"b", "a", "d">>, <<"1", ":", "2", ":", "3">> }

InitParse ==
  /\ activeTimers = <<>>
  /\ configs = <<>>
  /\ displayChan = 0
  /\ mu = "none"
  /\ tickPc = "wait"
  /\ needsDisplay = FALSE
  /\ dispPc = "recv"
  /\ mainPc = "prompt"
  /\ cmd = NoCmd
  /\ store = <<>>
  /\ notified = {}
  /\ crashed = FALSE
  /\ created = 0
  /\ ticks = 0
  /\ printed = <<>>
  /\ input \in Inputs
  /\ parsed = NoResult

\* Lines 282 and 290: the call of parseDuration
Parse ==
  /\ parsed = NoResult
  /\ parsed' = parseDuration(input)
  /\ UNCHANGED <<activeTimers, configs, displayChan, mu, tickPc, needsDisplay,
                 dispPc, mainPc, cmd, store, notified, crashed, created,
                 ticks, printed, input>>

NextParse == Parse

SpecParse == InitParse /\ [][NextParse]_vars

----------------------------------------------------------------------------
(* Properties *)

\* The config a timer was built from
configOf(t) == TimerConfig(t.name, t.phases, t.maxCycles)

\* Steps of the command loop, told by its position
DeleteActs == mainPc = "lock" /\ cmd.op = "d" /\ mainPc' = "unlock"

ResetActs == mainPc = "lock" /\ cmd.op = "r" /\ mainPc' = "unlock"

IndexedActs == mainPc = "lock" /\ cmd.op \in {"p", "r", "d"} /\ mainPc' = "unlock"

IndexTested == mainPc = "prompt" /\ mainPc' = "lock" /\ cmd'.op \in {"p", "r", "d"}

\* C1: whenever nobody holds tm.mu, the timer list and the config list have
\* the same length and the config at each index is the config of the timer
\* at that index.
C1_ListsInLockStep ==
  mu = "none" =>
    /\ Len(activeTimers) = Len(configs)
    /\ \A i \in 1..Len(activeTimers) : configs[i] = configOf(activeTimers[i])

\* C2: a delete with an index in range removes exactly the timer at that
\* index and the config of that same timer, every other timer and config
\* staying in order; and the list then written to timers.json is the config
\* list without that config.
C2_DeleteRemovesTimerAndItsConfig ==
  [][ /\ (DeleteActs /\ indexOk(cmd.num, activeTimers)) =>
           /\ activeTimers' = RemoveAt(activeTimers, cmd.num)
           /\ configs' = SelectSeq(configs,
                           LAMBDA c : c # configOf(activeTimers[cmd.num]))
           /\ Len(configs') = Len(configs) - 1
      /\ SaveOk => store' = configs
    ]_vars

\* C3: a p, r or d command never indexes the timer list out of its bounds:
\* the process never dies of an index or slice panic, whatever the ticker
\* does between the test of the index and the use of it.
C3_NoOutOfRangeAccess == ~crashed

\* C4: every step of the ticker, the renderer and the command loop that
\* reads or writes one of the two lists is done with tm.mu held by the
\* goroutine that takes the step.
C4_ListsAccessedUnderLock ==
  [][ /\ (IndexTested \/ CmdBody \/ SaveOk \/ MainDispPrint) => mu' = "main"
      /\ TickBody => mu' = "tick"
      /\ DispPrint => mu' = "disp"
    ]_vars

\* The program of C5: one phase of 2s work and 1s break, unlimited cycles
IsTwoOne == configs = <<TimerConfig(1, <<Phase(2, 1)>>, Unlimited)>>

\* C5 as stated: the fresh timer is on break with 1s remaining after 2
\* ticks, and working again in cycle 2 with 2s remaining after 3 ticks.
C5_BreakAfterTwoTicks ==
  (IsTwoOne /\ Len(activeTimers) = 1) =>
    LET t == activeTimers[1] IN
      /\ ticks = 2 => (~t.isWork /\ t.currentTime = 1)
      /\ ticks = 3 => (t.isWork /\ t.cycles = 2 /\ t.currentTime = 2)

\* C5 amended: a sub-phase of d seconds takes d + 1 ticks, the last one
\* being the switch.  The fresh timer is still working, with 0s remaining,
\* after 2 ticks; it is on break with 1s remaining after exactly 3 ticks;
\* and it is working again, in cycle 2 with 2s remaining, after exactly 2
\* further ticks (5 in all).
C5_BreakAfterThreeTicks ==
  IsTwoOne =>
    /\ Len(activeTimers) = 1
    /\ LET t == activeTimers[1] IN
         /\ ticks = 2 => (t.isWork /\ t.currentTime = 0 /\ t.cycles = 1)
         /\ ticks = 3 => (~t.isWork /\ t.currentTime = 1 /\ t.cycles = 1)
         /\ ticks = 4 => (~t.isWork /\ t.currentTime = 0 /\ t.cycles = 1)
         /\ ticks = 5 => (t.isWork /\ t.currentTime = 2 /\ t.cycles = 2)

C5_Witness ==
  /\ IsTwoOne /\ ticks = 5 /\ Len(activeTimers) = 1
  /\ activeTimers[1].isWork /\ activeTimers[1].cycles = 2

\* C6: a timer with maxCycles = 1 and one phase (work w, break b) is in the
\* list, in cycle 1 and phase 0, until the tick that ends its break, tick
\* w + b + 2 (for b = 1 its second tick on break); that tick reports it
\* completed and removes it; once on break it never works again.
C6_RemovedByTickEndingBreak ==
  LET c == configs[1] IN
    (c.MaxCycles = 1 /\ Len(c.Phases) = 1) =>
      LET w == c.Phases[1].WorkDuration
          b == c.Phases[1].BreakDuration
      IN IF ticks >= w + b + 2
         THEN /\ activeTimers = <<>>
              /\ ticks = w + b + 2 => notified = {<<c.Name, "completed">>}
         ELSE /\ Len(activeTimers) = 1
              /\ activeTimers[1].cycles = 1
              /\ activeTimers[1].currentPhase = 0
              /\ activeTimers[1].isWork <=> ticks <= w
              /\ <<c.Name, "completed">> \notin notified

C6_Witness ==
  LET c == configs[1] IN
    /\ c.MaxCycles = 1 /\ Len(c.Phases) = 1
    /\ c.Phases[1].BreakDuration = 1
    /\ ticks = c.Phases[1].WorkDuration + 3
    /\ activeTimers = <<>>
    /\ <<c.Name, "completed">> \in notified

\* C7: a run of the tick loop leaves every paused timer in the list with
\* all its fields as they were, and sends no notification for it.
C7_PausedTimerUntouched ==
  [][ TickBody =>
        \A i \in 1..Len(activeTimers) :
          activeTimers[i].isPaused =>
            /\ \E j \in 1..Len(activeTimers') : activeTimers'[j] = activeTimers[i]
            /\ \A n \in notified' : n[1] # activeTimers[i].name
    ]_vars

\* the tick loop has just run over a paused timer and over another timer
\* that switched
C7_Witness ==
  /\ tickPc = "unlock"
  /\ \E i \in 1..Len(activeTimers) :
       /\ activeTimers[i].isPaused
       /\ \E n \in notified : n[1] # activeTimers[i].name

\* C8: a timer with unlimited cycles is always in phase 0; a run of the
\* tick loop keeps it in the list and does not report it completed; and the
\* only step that takes it out of the list is a delete.
C8_UnlimitedNeverCompletes ==
  [][ \A i \in 1..Len(activeTimers) :
        activeTimers[i].maxCycles = Unlimited =>
          /\ activeTimers[i].currentPhase = 0
          /\ TickBody => <<activeTimers[i].name, "completed">> \notin notified'
          /\ \/ \E j \in 1..Len(activeTimers') :
                  /\ activeTimers'[j].name = activeTimers[i].name
                  /\ activeTimers'[j].currentPhase = 0
             \/ DeleteActs
    ]_vars

\* an unlimited timer that has ended more breaks than the model's largest
\* maxCycles, while the ticker takes its next step
C8_Witness ==
  /\ tickPc = "unlock"
  /\ \E i \in 1..Len(activeTimers) :
       /\ activeTimers[i].maxCycles = Unlimited
       /\ activeTimers[i].cycles > 1

\* C9: displayChan never holds more than one request; a post of the ticker
\* is never blocked; and after a post exactly one request is pending,
\* whether or not one was pending before.
C9_OnePendingRedraw ==
  [][ /\ displayChan <= 1
      /\ TickPost => displayChan' = 1
      /\ tickPc = "post" => ENABLED TickPost
    ]_vars

\* the ticker posts while the request of an earlier tick is still pending
C9_Witness == tickPc = "post" /\ displayChan = 1 /\ dispPc = "recv"

\* C10: a reset with an index in range sets currentTime of that timer to
\* the work duration of its first phase, and changes nothing else: not its
\* isWork, cycles, currentPhase or isPaused, no other timer, no config.
C10_ResetSetsFirstPhaseWork ==
  [][ (ResetActs /\ indexOk(cmd.num, activeTimers)) =>
        /\ ~crashed'
        /\ configs' = configs
        /\ Len(activeTimers') = Len(activeTimers)
        /\ \A j \in 1..Len(activeTimers) :
             LET t == activeTimers[j]
                 u == activeTimers'[j]
             IN IF j = cmd.num
                THEN /\ u.currentTime = t.phases[1].WorkDuration
                     /\ u = [t EXCEPT !.currentTime = u.currentTime]
                ELSE u = t
    ]_vars

\* a reset has just acted on the only timer, which is in its second phase,
\* whose work duration differs from the first phase's
C10_Witness ==
  /\ mainPc = "unlock" /\ cmd.op = "r" /\ ~crashed
  /\ Len(activeTimers) = 1
  /\ activeTimers[1].currentPhase = 1
  /\ activeTimers[1].currentTime = activeTimers[1].phases[1].WorkDuration
  /\ activeTimers[1].phases[2].WorkDuration # activeTimers[1].phases[1].WorkDuration

\* The step of the ticker goroutine that runs the loop over the timers
TickActs == tickPc = "wait" /\ tickPc' = "unlock"

\* C11: the remaining time of every timer of the list is never negative,
\* whatever the interleaving of ticks, pauses and resets; a tick takes exactly
\* one second from an unpaused timer whose remaining time is positive, and
\* switches (or removes) a timer whose remaining time is 0 instead of
\* decrementing it.
C11_RemainingNeverNegative ==
  [][ /\ \A j \in 1..Len(activeTimers') : activeTimers'[j].currentTime >= 0
      /\ TickActs =>
           \A i \in 1..Len(activeTimers) :
             LET t == activeTimers[i] IN
             ~t.isPaused =>
               IF t.currentTime > 0
               THEN \E j \in 1..Len(activeTimers') :
                      activeTimers'[j] = [t EXCEPT !.currentTime = t.currentTime - 1]
               ELSE \A j \in 1..Len(activeTimers') :
                      LET u == activeTimers'[j] IN
                      u.name = t.name =>
                        /\ u.isWork # t.isWork
                        /\ u.currentTime =
                             IF u.isWork
                             THEN u.phases[u.currentPhase + 1].WorkDuration
                             ELSE u.phases[u.currentPhase + 1].BreakDuration
    ]_vars

\* A tick has taken the last second of the work of a second phase
C11_Witness ==
  /\ tickPc = "unlock"
  /\ \E i \in 1..Len(activeTimers) :
       /\ activeTimers[i].currentPhase = 1
       /\ activeTimers[i].isWork
       /\ activeTimers[i].currentTime = 0
       /\ activeTimers[i].phases[2].WorkDuration = 1

\* C12: whenever tm.mu is free, the phase index of every timer of the list
\* is an index of its phases; and a timer whose phase index the tick moves
\* to len(phases) is out of the list when the tick loop ends, so that no
\* later step indexes its phases with it.
C12_PhaseIndexInRange ==
  [][ /\ mu' = "none" =>
           \A j \in 1..Len(activeTimers') :
             /\ 0 <= activeTimers'[j].currentPhase
             /\ activeTimers'[j].currentPhase < Len(activeTimers'[j].phases)
      /\ TickBody =>
           \A i \in 1..Len(activeTimers) :
             LET t == activeTimers[i] IN
             update(t).t.currentPhase >= Len(t.phases) =>
               /\ <<t.name, "completed">> \in notified'
               /\ \A j \in 1..Len(activeTimers') : activeTimers'[j].name # t.name
    ]_vars

\* The tick loop has moved a timer past its last phase and removed it,
\* and another timer stays in the list
C12_Witness ==
  /\ tickPc = "unlock"
  /\ Len(activeTimers) = 1
  /\ \E n \in notified :
       /\ n[2] = "completed"
       /\ activeTimers[1].name # n[1]

\* C13: between ticks the cycle counter of every timer of the list is at
\* least 1, and at most maxCycles when the timer is bounded; the tick that
\* ends the break of cycle maxCycles (the counter passing maxCycles inside
\* it) leaves the timer in its next phase with the counter back at 1, or
\* removes it.
C13_CycleCountInRange ==
  [][ /\ \A j \in 1..Len(activeTimers') :
           LET u == activeTimers'[j] IN
             /\ u.cycles >= 1
             /\ u.maxCycles # Unlimited => u.cycles <= u.maxCycles
      /\ Tick =>
           \A i \in 1..Len(activeTimers) :
             LET t == activeTimers[i] IN
             ( /\ t.maxCycles # Unlimited /\ t.cycles = t.maxCycles
               /\ ~t.isWork /\ t.currentTime = 0 ) =>
                 \/ activeTimers' = <<>>
                 \/ /\ activeTimers'[i].cycles = 1
                    /\ activeTimers'[i].currentPhase = t.currentPhase + 1
    ]_vars

\* A timer with maxCycles = 2 has just ended its second cycle of phase 0
\* and is in cycle 1 of phase 1
C13_Witness ==
  /\ Len(activeTimers) = 1
  /\ activeTimers[1].maxCycles = 2
  /\ activeTimers[1].currentPhase = 1
  /\ activeTimers[1].cycles = 1
  /\ <<activeTimers[1].name, "work">> \in notified
  /\ activeTimers[1].currentTime = activeTimers[1].phases[2].WorkDuration

\* The critical section of the `a` command
AddActs == mainPc = "lock" /\ cmd.op = "a" /\ mainPc' = "unlock"

\* C14: `a` appends the new timer to the end of the timer list and its
\* config to the end of the config list, and then writes timers.json; a
\* write that fails changes neither list nor the file (nothing is rolled
\* back, the command goes on to redraw), and a write that succeeds leaves
\* the config list in the file.
C14_AddKeptWhenSaveFails ==
  [][ /\ AddActs =>
           /\ activeTimers' = Append(activeTimers, timerFromConfig(cmd.config))
           /\ configs' = Append(configs, cmd.config)
           /\ ~crashed'
      /\ (CmdUnlock /\ cmd.op = "a") => mainPc' = "save"
      /\ SaveFail =>
           /\ UNCHANGED <<activeTimers, configs, store, crashed>>
           /\ mainPc' = "displock"
      /\ SaveOk =>
           /\ UNCHANGED <<activeTimers, configs>>
           /\ store' = configs
    ]_vars

\* The write of the first `a` command has failed: nothing is on disk, and
\* the timer and its config are in the lists
C14_Witness ==
  /\ mainPc = "displock"
  /\ store = <<>>
  /\ Len(configs) = 1
  /\ activeTimers = <<timerFromConfig(configs[1])>>

\* The positions of the separator in a string
Colons(s) == {i \in 1..Len(s) : s[i] = ":"}

\* A string that writes an integer: digits, with or without one sign in front
WritesInt(f) ==
  /\ f # <<>>
  /\ \A i \in 2..Len(f) : IsDigit(f[i])
  /\ IsDigit(f[1]) \/ (f[1] \in {"+", "-"} /\ Len(f) >= 2)

\* The integer such a string writes, read from its first digit on
RECURSIVE IntFrom(_, _)
IntFrom(f, acc) ==
  IF f = <<>> THEN acc ELSE IntFrom(Tail(f), 10 * acc + DigitVal(Head(f)))

IntOf(f) ==
  IF f[1] = "-" THEN 0 - IntFrom(Tail(f), 0)
  ELSE IF f[1] = "+" THEN IntFrom(Tail(f), 0)
  ELSE IntFrom(f, 0)

\* C15: on its input with the blanks at both ends removed, parseDuration
\* succeeds for a string with ':' exactly when there is one ':' and the
\* fields before and after it write integers, and then returns
\* minutes*60 + seconds; for a string without ':' exactly when the whole
\* string writes an integer, and then returns minutes*60; every other
\* string is an error.  "5" gives 300s, "1:30" gives 90s, "bad" and "1:2:3"
\* are errors, and negative fields are taken as they are.
C15_ParseDuration ==
  parsed # NoResult =>
    LET s == TrimSpace(input)
        c == Colons(s)
    IN /\ IF c # {}
          THEN LET k == CHOOSE i \in c : TRUE
                   m == SubSeq(s, 1, k - 1)
                   sec == SubSeq(s, k + 1, Len(s))
               IN /\ parsed.ok <=>
                       (Cardinality(c) = 1 /\ WritesInt(m) /\ WritesInt(sec))
                  /\ parsed.ok => parsed.duration = IntOf(m) * 60 + IntOf(sec)
          ELSE /\ parsed.ok <=> WritesInt(s)
               /\ parsed.ok => parsed.duration = IntOf(s) * 60
       /\ input = <<"5">> => parsed = Result(TRUE, 300)
       /\ input = <<"1", ":", "3", "0">> => parsed = Result(TRUE, 90)
       /\ input = <<"b", "a", "d">> => ~parsed.ok
       /\ input = <<"1", ":", "2", ":", "3">> => ~parsed.ok
       /\ input = <<"-", "2">> => parsed = Result(TRUE, -120)
       /\ input = <<"1", ":", "-", "5">> => parsed = Result(TRUE, 55)
       /\ input = <<"-", "1", ":", "5">> => parsed = Result(TRUE, -55)

\* parseDuration has returned 90 seconds for "1:30"
C15_Witness ==
  /\ input = <<"1", ":", "3", "0">>
  /\ parsed = Result(TRUE, 90)

\* C16: a tick of an unpaused timer on break with 0s remaining increments
\* its cycle counter; when the timer is bounded and the counter passes
\* maxCycles, the phase index goes up by one and, a next phase existing,
\* the counter is set back to 1; unless the timer completes, it ends the
\* tick working, with the work duration of its (possibly new) current phase
\* remaining.  A tick of an unpaused working timer with 0s remaining puts
\* it on break with the break duration of its current phase remaining, its
\* cycle counter and phase index unchanged.
C16_TransitionAtZero ==
  [][ Tick =>
        \A i \in 1..Len(activeTimers) :
          LET t == activeTimers[i] IN
          (~t.isPaused /\ t.currentTime = 0) =>
            IF t.isWork
            THEN activeTimers'[i] =
                   [t EXCEPT !.isWork = FALSE,
                             !.currentTime = t.phases[t.currentPhase + 1].BreakDuration]
            ELSE LET c == t.cycles + 1
                     over == t.maxCycles # Unlimited /\ c > t.maxCycles
                     p == IF over THEN t.currentPhase + 1 ELSE t.currentPhase
                 IN IF over /\ p >= Len(t.phases)
                    THEN activeTimers' = <<>>
                    ELSE activeTimers'[i] =
                           [t EXCEPT !.isWork = TRUE,
                                     !.currentPhase = p,
                                     !.cycles = IF over THEN 1 ELSE c,
                                     !.currentTime = t.phases[p + 1].WorkDuration]
    ]_vars

\* The tick that ended the only cycle of phase 0 has put the timer in
\* phase 1, whose work duration is another than that of phase 0
C16_Witness ==
  /\ Len(activeTimers) = 1
  /\ activeTimers[1].maxCycles = 1
  /\ activeTimers[1].currentPhase = 1
  /\ activeTimers[1].phases[1].WorkDuration = 1
  /\ activeTimers[1].phases[2].WorkDuration = 2
  /\ activeTimers[1].currentTime = 2
  /\ <<activeTimers[1].name, "work">> \in notified

\* The timers that one call of update each leaves in the list, in list order
RECURSIVE Survivors(_)
Survivors(timers) ==
  IF timers = <<>> THEN <<>>
  ELSE LET r == update(Head(timers)) IN
       (IF r.completed THEN <<>> ELSE <<r.t>>) \o Survivors(Tail(timers))

\* C17: one run of the tick loop calls update exactly once on every timer
\* that was in the list when it started, also when several timers complete
\* in that run; it removes exactly the timers whose update reported
\* completion, and the other timers keep their order.
C17_EveryTimerTickedOnce ==
  [][ TickBody =>
        /\ activeTimers' = Survivors(activeTimers)
        /\ notified' =
             UNION { {<<activeTimers[i].name, k>> : k \in update(activeTimers[i]).notes} :
                     i \in 1..Len(activeTimers) }
    ]_vars

\* Two timers have completed in the same run of the tick loop
C17_Witness ==
  /\ tickPc = "unlock"
  /\ activeTimers = <<>>
  /\ \E m, n \in 1..MaxTimers :
       /\ m # n
       /\ <<m, "completed">> \in notified
       /\ <<n, "completed">> \in notified

\* C18: a displayTimers call that holds tm.mu has written no timer line to
\* the terminal: it formats and prints after releasing the lock, so that
\* the ticker never waits for tm.mu while lines are being written.
C18_NoOutputUnderLock == mu \in {"disp", "main"} => printed = <<>>

\* No timer of the list is paused
NonePaused == \A i \in 1..Len(activeTimers) : ~activeTimers[i].isPaused

\* C19: with the ticker scheduled fairly, a bounded timer that from some
\* point on is not paused and not reset leaves the list; and the only steps
\* that take it out of the list are a delete and the run of the tick loop
\* in which it completes, so that a timer that is not deleted is removed by
\* its completion.
C19_BoundedTimerCompletes ==
  /\ [][ (activeTimers # <<>> /\ activeTimers' = <<>>) =>
           \/ DeleteActs
           \/ TickBody /\ <<activeTimers[1].name, "completed">> \in notified'
       ]_vars
  /\ (<>[]NonePaused /\ <>[][~ResetActs]_vars) => <>(activeTimers = <<>>)

\* The tick loop has just removed the timer as completed, while the
\* command loop is about to redraw after a command on it
C19_Witness ==
  /\ tickPc = "unlock"
  /\ activeTimers = <<>>
  /\ <<1, "completed">> \in notified
  /\ mainPc = "displock"
  /\ store = configs

\* The ticks one cycle of a phase takes: a sub-phase of d seconds takes
\* d + 1 ticks
CycleTicks(ph) == ph.WorkDuration + ph.BreakDuration + 2

\* The ticks one cycle of each of the first p phases takes
RECURSIVE SumTicks(_, _)
SumTicks(ps, p) == IF p = 0 THEN 0 ELSE SumTicks(ps, p - 1) + CycleTicks(ps[p])

\* C20: a bounded timer that is never paused and never reset, with
\* maxCycles = M and P phases, goes through its phases in order and runs M
\* cycles in each: after k ticks it is in the phase p with
\* M * SumTicks(p) <= k < M * SumTicks(p + 1), in the cycle that k falls
\* in, and it is reported completed and removed by tick number
\* M * SumTicks(P) = M * sum of (work_i + break_i + 2), not before and not
\* after.
C20_CompletesAfterAllCycles ==
  LET c == configs[1]
      M == c.MaxCycles
      P == Len(c.Phases)
      T == M * SumTicks(c.Phases, P)
  IN M # Unlimited =>
       IF ticks >= T
       THEN /\ activeTimers = <<>>
            /\ ticks = T <=> <<c.Name, "completed">> \in notified
       ELSE /\ Len(activeTimers) = 1
            /\ <<c.Name, "completed">> \notin notified
            /\ LET t == activeTimers[1]
                   p == CHOOSE q \in 0..(P - 1) :
                          /\ M * SumTicks(c.Phases, q) <= ticks
                          /\ ticks < M * SumTicks(c.Phases, q + 1)
                   k == ticks - M * SumTicks(c.Phases, p)
               IN /\ t.currentPhase = p
                  /\ t.cycles = 1 + (k \div CycleTicks(c.Phases[p + 1]))

\* A timer with 2 phases and maxCycles = 2 is removed by tick 2 * (3 + 2)
C20_Witness ==
  LET c == configs[1] IN
    /\ c.MaxCycles = 2 /\ Len(c.Phases) = 2
    /\ c.Phases[1] = Phase(1, 0)
    /\ c.Phases[2] = Phase(0, 0)
    /\ ticks = 10
    /\ activeTimers = <<>>
    /\ <<c.Name, "completed">> \in notified

====
